---- MODULE Spec2Model ----
(***************************************************************************)
(* Verification model of parts of blender-studio-tools:                    *)
(*   - asset_pipeline sync (sync.py) and material ownership (materials.py) *)
(*   - blender_studio_pipeline AssetBuilder.publish (asset_builder.py)     *)
(*   - render_review sequence editor operators (ops.py)                    *)
(*   - media_viewer operators (ops.py)                                     *)
(*   - pose_shape_keys PoseShapeKeyTarget name callbacks (pose_key.py)     *)
(*   - render_review register / unregister (__init__.py, ops.py)           *)
(*   - blender_studio_pipeline TaskLayerAssembly (task_layer.py)           *)
(* Each subsystem has its own specification over its own variables; the    *)
(* variables of the other subsystems stay at their initial value.          *)
(***************************************************************************)
EXTENDS Integers, Sequences, FiniteSets, TLC

VARIABLES
    \* ---- asset_pipeline/sync.py: the sync operator (self) and the scene
    sync_pc,             \* position of the operator in its call sequence
    local_task_layers,   \* asset_pipe.get_local_task_layers() of the working file
    objects,             \* bpy.data.objects of the working file
    invalid_objs,        \* self._invalid_objs
    task_layer_keys,     \* self._task_layer_keys
    sync_target,         \* self._sync_target
    sync_target_exists,  \* self._sync_target.exists()
    published,           \* find_all_published(current_file, ACTIVE_PUBLISH_KEY)
    is_depreciated,      \* asset_pipeline.is_depreciated of each published file
    push_targets,        \* push_targets of sync_execute_push
    push_idx,            \* index of the next push target of the for loop
    open_file,           \* the file that is open in the host
    opened,              \* files opened with wm.open_mainfile, in order
    saved,               \* files saved with wm.save_as_mainfile(filepath=file_path)
    merges,              \* calls of merge_task_layer, in order
    sync_error,          \* asset_pipeline.sync_error
    sync_result,         \* return value of the last sync_* function
    \* ---- asset_pipeline/.../transfer_functions/materials.py
    obj_type,                 \* obj.type of each object
    transfer_data_ownership,  \* obj.transfer_data_ownership of each object
    temp_transfer_data,       \* scene.asset_pipeline.temp_transfer_data
    obj_materials,            \* len(obj.data.materials) of each object
    \* ---- blender_studio_pipeline/asset_pipeline/builder/asset_builder.py
    publish_pc,          \* position inside AssetBuilder.publish
    asset_publishes,     \* build_context._asset_publishes
    publish_files,       \* the asset versions that exist on disk
    pickle_file,         \* the file at asset_task.pickle_path
    started,             \* calls of BuilderBlenderStarter.start_publish
    publish_calls,       \* number of publish() calls so far
    this_call,           \* what the running (or last) publish() call did
    \* ---- render_review/ops.py: isolate strip view
    existing,            \* names of the strips of sequence_editor.sequences_all
    nested,              \* the strips that are inside a meta strip
    mute,                \* strip.mute of each strip
    isolate_view,        \* scene.rr.isolate_view
    selected,            \* context.selected_sequences at the last enter
    mute_before,         \* strip.mute of each strip before isolate view was entered
    isolate_op,          \* the operator executed last
    \* ---- render_review/ops.py: approve render
    fs,                  \* the shot-frames directory, its backup and metadata.json
    approve_pc,          \* position inside RR_OT_sqe_approve_render.execute
    strip_dir,           \* the render directory of the active strip
    fs_log,              \* file system operations of the running execute
    approve_pre,         \* the file system when the running execute began
    \* ---- render_review/ops.py: push to edit
    previews_exists,     \* shot_previews_dir.exists()
    previews,            \* the entries of the shot previews directory
    pushed,              \* the file names push_to_edit copied to, in order
    previews_before,     \* the entries of the directory before the last push
    overwrote,           \* the last push_to_edit copied over an existing file
    push_result,         \* return value of the last push_to_edit
    \* ---- media_viewer/ops.py
    frame_start,         \* context.scene.frame_start
    frame_end,           \* context.scene.frame_end
    frame_current,       \* context.scene.frame_current
    loaded,              \* the movie files that have strips in the sequence editor
    sound_mute,          \* mute of the sound strip of each loaded movie file
    is_muted,            \* the module global is_muted
    viewer_op,           \* the operator executed last
    delta,               \* delta of the last media_viewer.frame_offset
    frame_before,        \* frame_current before the last operator
    sound_before,        \* sound_mute before the last operator
    \* ---- pose_shape_keys/pose_key.py: one PoseShapeKeyTarget
    target_name,         \* self.name
    shape_key_name,      \* self.shape_key_name
    block_name_update,   \* self.block_name_update
    key_blocks,          \* names of ob.data.shape_keys.key_blocks ({}: no shape_keys)
    pose_stack,          \* the update callbacks that are running, innermost last
    update_calls,        \* update callbacks called since the last property was set
    pose_op,             \* what set a property last
    shape_key_name_before,  \* self.shape_key_name before that
    key_blocks_before,   \* the key blocks before that
    \* ---- render_review/__init__.py and ops.py: register / unregister
    rr_pc,               \* position inside render_review.register / unregister
    rr_registered,       \* the modules whose classes are registered in the host
    addon_keymap_items,  \* len(ops.addon_keymap_items)
    window_keymap_items, \* the add-on's items in the host's "Window" keymap
    background,          \* bpy.app.background
    rr_op,               \* the package function called last
    rr_calls,            \* the module functions it called, in order
    rr_raised,           \* it ended with an exception
    rr_registered_before,  \* rr_registered when it was called
    \* ---- blender_studio_pipeline/asset_pipeline/builder/task_layer.py
    assembly,               \* TaskLayerAssembly(...): "none", "built" or "raised"
    task_layer_config_dict, \* self._task_layer_config_dict: class name -> config
    task_layers,            \* self._task_layers
    task_layer_configs,     \* self._task_layer_configs, a list of config objects
    config_objects,         \* the TaskLayerConfig objects, in order of creation
    init_task_layers,       \* the list as it was passed to __init__
    assembly_op             \* the method called last

syncVars == <<sync_pc, local_task_layers, objects, invalid_objs, task_layer_keys,
              sync_target, sync_target_exists, published, is_depreciated,
              push_targets, push_idx, open_file, opened, saved, merges,
              sync_error, sync_result>>

matVars == <<obj_type, transfer_data_ownership, temp_transfer_data, obj_materials>>

builderVars == <<publish_pc, asset_publishes, publish_files, pickle_file, started,
                 publish_calls, this_call>>

isolateVars == <<existing, nested, mute, isolate_view, selected, mute_before,
                 isolate_op>>

approveVars == <<fs, approve_pc, strip_dir, fs_log, approve_pre>>

pushVars == <<previews_exists, previews, pushed, previews_before, overwrote,
              push_result>>

viewerVars == <<frame_start, frame_end, frame_current, loaded, sound_mute, is_muted,
                viewer_op, delta, frame_before, sound_before>>

poseVars == <<target_name, shape_key_name, block_name_update, key_blocks,
              pose_stack, update_calls, pose_op, shape_key_name_before,
              key_blocks_before>>

registerVars == <<rr_pc, rr_registered, addon_keymap_items, window_keymap_items,
                  background, rr_op, rr_calls, rr_raised, rr_registered_before>>

assemblyVars == <<assembly, task_layer_config_dict, task_layers,
                  task_layer_configs, config_objects, init_task_layers,
                  assembly_op>>

vars == <<syncVars, matVars, builderVars, isolateVars, approveVars, pushVars,
          viewerVars, poseVars, registerVars, assemblyVars>>

\* The variables of the other subsystems, which a subsystem's actions leave alone.
notSyncVars ==
    <<matVars, builderVars, isolateVars, approveVars, pushVars, viewerVars,
      poseVars, registerVars, assemblyVars>>

notMatVars ==
    <<syncVars, builderVars, isolateVars, approveVars, pushVars, viewerVars,
      poseVars, registerVars, assemblyVars>>

notBuilderVars ==
    <<syncVars, matVars, isolateVars, approveVars, pushVars, viewerVars,
      poseVars, registerVars, assemblyVars>>

notIsolateVars ==
    <<syncVars, matVars, builderVars, approveVars, pushVars, viewerVars,
      poseVars, registerVars, assemblyVars>>

notApproveVars ==
    <<syncVars, matVars, builderVars, isolateVars, pushVars, viewerVars,
      poseVars, registerVars, assemblyVars>>

notPushVars ==
    <<syncVars, matVars, builderVars, isolateVars, approveVars, viewerVars,
      poseVars, registerVars, assemblyVars>>

notViewerVars ==
    <<syncVars, matVars, builderVars, isolateVars, approveVars, pushVars,
      poseVars, registerVars, assemblyVars>>

notPoseVars ==
    <<syncVars, matVars, builderVars, isolateVars, approveVars, pushVars,
      viewerVars, registerVars, assemblyVars>>

notRegisterVars ==
    <<syncVars, matVars, builderVars, isolateVars, approveVars, pushVars,
      viewerVars, poseVars, assemblyVars>>

notAssemblyVars ==
    <<syncVars, matVars, builderVars, isolateVars, approveVars, pushVars,
      viewerVars, poseVars, registerVars>>

(***************************************************************************)
(* Generic helpers                                                         *)
(***************************************************************************)
Range(s) == {s[i] : i \in 1..Len(s)}

InSeq(x, s) == \E i \in 1..Len(s) : s[i] = x

(***************************************************************************)
(* asset_pipeline/sync.py                                                  *)
(***************************************************************************)
\* config.TASK_LAYER_TYPES: the task layer keys of the production, in order.
TASK_LAYER_TYPES == <<"Modeling", "Rigging", "Shading">>

WorkingFile == "work"

PublishedFiles == {"pub1", "pub2", "pub3"}

SceneObjects == {"obA", "obB", "obC"}

\* The published-file lists find_all_published can return (no duplicates).
PublishedLists == {<<>>, <<"pub1">>, <<"pub1", "pub2">>}

SyncInit ==
    /\ sync_pc = "idle"
    /\ local_task_layers \in
           {SelectSeq(TASK_LAYER_TYPES, LAMBDA tl : tl \in S) :
                S \in SUBSET Range(TASK_LAYER_TYPES)}
    /\ objects = SceneObjects
    /\ invalid_objs = {}
    /\ task_layer_keys = <<>>
    /\ sync_target \in PublishedFiles
    /\ sync_target_exists \in BOOLEAN
    /\ published \in PublishedLists
    /\ is_depreciated \in [PublishedFiles -> BOOLEAN]
    /\ push_targets = <<>>
    /\ push_idx = 1
    /\ open_file = WorkingFile
    /\ opened = <<>>
    /\ saved = <<>>
    /\ merges = <<>>
    /\ sync_error = FALSE
    /\ sync_result = "NONE"

\* sync_invoke: clears self._invalid_objs, then collects the invalid objects of
\* the asset collection (get_invalid_objects); without a top level collection
\* it returns CANCELLED with the list cleared.
sync_invoke(has_col, inv) ==
    /\ sync_pc \in {"idle", "done", "cancelled"}
    /\ open_file = WorkingFile
    /\ IF ~has_col
       THEN /\ invalid_objs' = {}
            /\ sync_result' = "CANCELLED"
            /\ sync_pc' = "cancelled"
       ELSE /\ invalid_objs' = inv
            /\ sync_result' = "NONE"
            /\ sync_pc' = "invoked"
    /\ push_targets' = <<>>
    /\ push_idx' = 1
    /\ opened' = <<>>
    /\ saved' = <<>>
    /\ merges' = <<>>
    /\ UNCHANGED notSyncVars
    /\ UNCHANGED <<local_task_layers, objects, task_layer_keys, sync_target,
                   sync_target_exists, published, is_depreciated, open_file,
                   sync_error>>

\* The objects left in bpy.data.objects by sync_execute_prepare_sync.
prepare_sync_objects_always(objs, invalid, target_exists) == objs \ invalid

prepare_sync_objects(objs, invalid, target_exists) ==
    IF ~target_exists THEN objs ELSE objs \ invalid

sync_execute_prepare_sync ==
    /\ sync_pc = "invoked"
    /\ task_layer_keys' = local_task_layers
    /\ objects' = prepare_sync_objects(objects, invalid_objs, sync_target_exists)
    /\ IF ~sync_target_exists
       THEN /\ sync_result' = "CANCELLED"
            /\ sync_pc' = "cancelled"
       ELSE /\ sync_result' = "NONE"
            /\ sync_pc' = "prepared"
    /\ UNCHANGED notSyncVars
    /\ UNCHANGED <<local_task_layers, invalid_objs, sync_target, sync_target_exists,
                   published, is_depreciated, push_targets, push_idx, open_file,
                   opened, saved, merges, sync_error>>

\* local_tls passed to merge_task_layer by sync_execute_pull.
pull_local_tls(keys) == keys

\* sync_execute_pull: one merge into the working file; err is whether
\* merge_task_layer returned an error message.
sync_execute_pull(err) ==
    /\ sync_pc = "prepared"
    /\ merges' = Append(merges, [phase |-> "pull", into |-> open_file,
                                 local_tls |-> pull_local_tls(task_layer_keys),
                                 external_file |-> sync_target, error |-> err])
    /\ IF err
       THEN /\ sync_error' = TRUE
            /\ sync_result' = "CANCELLED"
            /\ sync_pc' = "cancelled"
       ELSE /\ sync_result' = "NONE"
            /\ sync_pc' = "pulled"
            /\ UNCHANGED sync_error
    /\ UNCHANGED notSyncVars
    /\ UNCHANGED <<local_task_layers, objects, invalid_objs, task_layer_keys,
                   sync_target, sync_target_exists, published, is_depreciated,
                   push_targets, push_idx, open_file, opened, saved>>

\* push_targets of sync_execute_push: all published files of the active
\* publish directory, plus the sync target when it is not among them.
find_push_targets(all_published, target) ==
    IF InSeq(target, all_published) THEN all_published
    ELSE Append(all_published, target)

\* local_tls passed to merge_task_layer for a push target.
push_local_tls_same(keys) ==
    SelectSeq(TASK_LAYER_TYPES, LAMBDA task_layer : InSeq(task_layer, keys))

push_local_tls(keys) ==
    SelectSeq(TASK_LAYER_TYPES, LAMBDA task_layer : ~InSeq(task_layer, keys))

\* Whether a push target is saved after its merge returned error_msg.
push_saves_always(error_msg) == TRUE

push_saves(error_msg) == ~error_msg

\* sync_execute_push, up to the for loop.
sync_execute_push_begin ==
    /\ sync_pc \in {"prepared", "pulled"}
    /\ push_targets' = find_push_targets(published, sync_target)
    /\ push_idx' = 1
    /\ sync_pc' = "pushing"
    /\ sync_result' = "NONE"
    /\ UNCHANGED notSyncVars
    /\ UNCHANGED <<local_task_layers, objects, invalid_objs, task_layer_keys,
                   sync_target, sync_target_exists, published, is_depreciated,
                   open_file, opened, saved, merges, sync_error>>

\* One iteration of the for loop of sync_execute_push.
sync_execute_push_target(err) ==
    /\ sync_pc = "pushing"
    /\ push_idx <= Len(push_targets)
    /\ LET file == push_targets[push_idx] IN
       /\ opened' = Append(opened, file)
       /\ IF is_depreciated[file]
          THEN \* continue: the target stays open, nothing merged or saved
               /\ open_file' = file
               /\ push_idx' = push_idx + 1
               /\ UNCHANGED <<merges, saved, sync_error, sync_result, sync_pc>>
          ELSE /\ merges' = Append(merges,
                       [phase |-> "push", into |-> file,
                        local_tls |-> push_local_tls(task_layer_keys),
                        external_file |-> WorkingFile, error |-> err])
               /\ IF ~push_saves(err)
                  THEN /\ sync_error' = TRUE
                       /\ sync_result' = "CANCELLED"
                       /\ sync_pc' = "cancelled"
                       /\ open_file' = file
                       /\ UNCHANGED <<saved, push_idx>>
                  ELSE /\ saved' = Append(saved, file)
                       /\ open_file' = WorkingFile
                       /\ push_idx' = push_idx + 1
                       /\ UNCHANGED <<sync_error, sync_result, sync_pc>>
    /\ UNCHANGED notSyncVars
    /\ UNCHANGED <<local_task_layers, objects, invalid_objs, task_layer_keys,
                   sync_target, sync_target_exists, published, is_depreciated,
                   push_targets>>

\* The for loop of sync_execute_push is exhausted: the function returns.
sync_execute_push_end ==
    /\ sync_pc = "pushing"
    /\ push_idx > Len(push_targets)
    /\ sync_pc' = "done"
    /\ UNCHANGED notSyncVars
    /\ UNCHANGED <<local_task_layers, objects, invalid_objs, task_layer_keys,
                   sync_target, sync_target_exists, published, is_depreciated,
                   push_targets, push_idx, open_file, opened, saved, merges,
                   sync_error, sync_result>>

\* The pull operator ends after sync_execute_pull.
sync_pull_end ==
    /\ sync_pc = "pulled"
    /\ sync_pc' = "done"
    /\ UNCHANGED notSyncVars
    /\ UNCHANGED <<local_task_layers, objects, invalid_objs, task_layer_keys,
                   sync_target, sync_target_exists, published, is_depreciated,
                   push_targets, push_idx, open_file, opened, saved, merges,
                   sync_error, sync_result>>

\* The user opens the working file again after a push stopped in a target.
reopen_working_file ==
    /\ sync_pc \in {"done", "cancelled"}
    /\ open_file # WorkingFile
    /\ open_file' = WorkingFile
    /\ UNCHANGED notSyncVars
    /\ UNCHANGED <<sync_pc, local_task_layers, objects, invalid_objs,
                   task_layer_keys, sync_target, sync_target_exists, published,
                   is_depreciated, push_targets, push_idx, opened, saved, merges,
                   sync_error, sync_result>>

SyncNext ==
    \/ \E has_col \in BOOLEAN, inv \in SUBSET objects : sync_invoke(has_col, inv)
    \/ sync_execute_prepare_sync
    \/ \E err \in BOOLEAN : sync_execute_pull(err)
    \/ sync_execute_push_begin
    \/ \E err \in BOOLEAN : sync_execute_push_target(err)
    \/ sync_execute_push_end
    \/ sync_pull_end
    \/ reopen_working_file

\* The sync operator at rest, for the specifications of the other subsystems.
SyncIdle ==
    /\ sync_pc = "idle"
    /\ local_task_layers = <<>>
    /\ objects = {}
    /\ invalid_objs = {}
    /\ task_layer_keys = <<>>
    /\ sync_target = "pub1"
    /\ sync_target_exists = FALSE
    /\ published = <<>>
    /\ is_depreciated = [f \in PublishedFiles |-> FALSE]
    /\ push_targets = <<>>
    /\ push_idx = 1
    /\ open_file = WorkingFile
    /\ opened = <<>>
    /\ saved = <<>>
    /\ merges = <<>>
    /\ sync_error = FALSE
    /\ sync_result = "NONE"

(***************************************************************************)
(* asset_pipeline/merge/transfer_data/transfer_functions/materials.py      *)
(***************************************************************************)
\* constants.MATERIAL_SLOT_KEY and constants.MATERIAL_TRANSFER_DATA_ITEM_NAME
MATERIAL_SLOT_KEY == "MATERIAL"

MATERIAL_TRANSFER_DATA_ITEM_NAME == "All Materials"

\* Another kind of transferable data that objects own.
VERTEX_GROUP_KEY == "GROUP_VERTEX"

material_objects == {"CURVE", "GPENCIL", "META", "MESH", "SURFACE", "FONT", "VOLUME"}

MatObjects == {"obA", "obB"}

ObjectTypes == {"MESH", "FONT", "EMPTY"}

\* The task layers get_transfer_data_owner can name as owner of material slots.
MaterialOwners == {"Modeling", "Shading"}

\* Bound on the length of the ownership and temp collections.
MaxItems == 3

MaterialItem(owner) ==
    [name |-> MATERIAL_TRANSFER_DATA_ITEM_NAME, type |-> MATERIAL_SLOT_KEY,
     owner |-> owner]

\* A vertex group that happens to carry the name of the material item.
GroupItem(owner) ==
    [name |-> MATERIAL_TRANSFER_DATA_ITEM_NAME, type |-> VERTEX_GROUP_KEY,
     owner |-> owner]

\* check_transfer_data_entry: the names of the entries of type td_type_key that
\* equal key.
check_transfer_data_entry(transfer_data, key, td_type_key) ==
    {key} \cap {transfer_data[i].name :
                   i \in {j \in 1..Len(transfer_data) :
                              transfer_data[j].type = td_type_key}}

MatIdle ==
    /\ obj_type = [o \in MatObjects |-> "EMPTY"]
    /\ transfer_data_ownership = [o \in MatObjects |-> <<>>]
    /\ temp_transfer_data = <<>>
    /\ obj_materials = [o \in MatObjects |-> 0]

MatInit ==
    /\ obj_type \in [MatObjects -> ObjectTypes]
    /\ transfer_data_ownership \in
           [MatObjects -> {<<>>, <<GroupItem("Modeling")>>,
                           <<MaterialItem("Shading")>>}]
    /\ temp_transfer_data = <<>>
    /\ obj_materials \in [MatObjects -> {0, 1}]
    /\ \A o \in MatObjects :
           obj_type[o] \notin material_objects => obj_materials[o] = 0

\* Whether init_materials proposes a new ownership item for an object of type
\* type whose ownership has the material entries matches.
init_materials_adds_unchecked(type, matches) == type \in material_objects

init_materials_adds(type, matches) ==
    /\ type \in material_objects
    /\ Cardinality(matches) = 0

\* init_materials(scene, obj); owner is the task layer that
\* get_transfer_data_owner returns for material slots, surrender its
\* auto_surrender flag.
init_materials(obj, owner, surrender) ==
    /\ Len(temp_transfer_data) < MaxItems
    /\ LET matches == check_transfer_data_entry(
                          transfer_data_ownership[obj],
                          MATERIAL_TRANSFER_DATA_ITEM_NAME, MATERIAL_SLOT_KEY)
       IN  IF init_materials_adds(obj_type[obj], matches)
           THEN temp_transfer_data' = Append(temp_transfer_data,
                    [name |-> MATERIAL_TRANSFER_DATA_ITEM_NAME, owner |-> owner,
                     type |-> MATERIAL_SLOT_KEY, obj |-> obj,
                     surrender |-> surrender])
           ELSE UNCHANGED temp_transfer_data
    /\ UNCHANGED notMatVars
    /\ UNCHANGED <<obj_type, transfer_data_ownership, obj_materials>>

\* materials_clean(obj): clears the materials of an object without a material
\* ownership entry.
materials_clean(obj) ==
    /\ LET matches == check_transfer_data_entry(
                          transfer_data_ownership[obj],
                          MATERIAL_TRANSFER_DATA_ITEM_NAME, MATERIAL_SLOT_KEY)
       IN  IF Cardinality(matches) # 0
           THEN UNCHANGED obj_materials
           ELSE obj_materials' = [obj_materials EXCEPT ![obj] = 0]
    /\ UNCHANGED notMatVars
    /\ UNCHANGED <<obj_type, transfer_data_ownership, temp_transfer_data>>

\* sync_invoke clears temp_transfer_data before ownership is collected.
clear_temp_transfer_data ==
    /\ temp_transfer_data' = <<>>
    /\ UNCHANGED notMatVars
    /\ UNCHANGED <<obj_type, transfer_data_ownership, obj_materials>>

\* The ownership entries of obj after ownership_set(temp): every temp item of
\* the object is added to its transfer_data_ownership.
RECURSIVE ownership_after(_, _, _)
ownership_after(own, temp, obj) ==
    IF temp = <<>> THEN own
    ELSE ownership_after(
             IF Head(temp).obj = obj
             THEN Append(own, [name |-> Head(temp).name, type |-> Head(temp).type,
                               owner |-> Head(temp).owner])
             ELSE own,
             Tail(temp), obj)

\* sync_execute_update_ownership: ownership_set(temp_transfer_data).
sync_execute_update_ownership ==
    /\ temp_transfer_data # <<>>
    /\ \A o \in MatObjects :
           Len(ownership_after(transfer_data_ownership[o], temp_transfer_data, o))
               <= MaxItems
    /\ transfer_data_ownership' =
           [o \in MatObjects |->
               ownership_after(transfer_data_ownership[o], temp_transfer_data, o)]
    /\ UNCHANGED notMatVars
    /\ UNCHANGED <<obj_type, temp_transfer_data, obj_materials>>

\* A material is assigned to an object that can carry material slots.
assign_material(obj) ==
    /\ obj_type[obj] \in material_objects
    /\ obj_materials[obj] = 0
    /\ obj_materials' = [obj_materials EXCEPT ![obj] = 1]
    /\ UNCHANGED notMatVars
    /\ UNCHANGED <<obj_type, transfer_data_ownership, temp_transfer_data>>

MatNext ==
    \/ \E obj \in MatObjects, owner \in MaterialOwners :
           init_materials(obj, owner, owner # "Shading")
    \/ \E obj \in MatObjects : materials_clean(obj)
    \/ clear_temp_transfer_data
    \/ sync_execute_update_ownership
    \/ \E obj \in MatObjects : assign_material(obj)

(***************************************************************************)
(* blender_studio_pipeline/asset_pipeline/builder/asset_builder.py         *)
(***************************************************************************)
\* Bound on the number of publish() calls of a behaviour.
MaxPublishCalls == 3

PublishVersions == <<"v001", "v002">>

NoCall == [kind |-> "none", pickles |-> 0, starts |-> 0, first_writes |-> 0]

NoPickle == [exists |-> FALSE, open |-> FALSE, content |-> "none"]

BuilderIdle ==
    /\ publish_pc = "idle"
    /\ asset_publishes = <<>>
    /\ publish_files = {}
    /\ pickle_file = NoPickle
    /\ started = <<>>
    /\ publish_calls = 0
    /\ this_call = NoCall

BuilderInit ==
    /\ publish_pc = "idle"
    /\ asset_publishes \in {SubSeq(PublishVersions, 1, n) : n \in 0..Len(PublishVersions)}
    /\ publish_files = Range(asset_publishes)
    /\ pickle_file \in {NoPickle,
                         [exists |-> TRUE, open |-> FALSE, content |-> "old"]}
    /\ started = <<>>
    /\ publish_calls = 0
    /\ this_call = NoCall

\* publish(): the special case "first version" (not self.build_context._asset_publishes).
is_first_version(publishes) == publishes = <<>>

\* The point of publish() at which BuilderBlenderStarter.start_publish is
\* called: after the with block has closed the pickle file.
start_publish_inside_with(pc) == pc = "dumped"

start_publish_point(pc) == pc = "closed"

\* publish(), first statement: either the whole first-version branch
\* (_create_first_version, then return) or open(pickle_path, "wb").
publish_begin ==
    /\ publish_pc = "idle"
    /\ publish_calls < MaxPublishCalls
    /\ publish_calls' = publish_calls + 1
    /\ IF is_first_version(asset_publishes)
       THEN /\ publish_files' = publish_files \cup {PublishVersions[1]}
            /\ this_call' = [kind |-> "first", pickles |-> 0, starts |-> 0,
                             first_writes |-> 1]
            /\ UNCHANGED <<publish_pc, pickle_file>>
       ELSE /\ pickle_file' = [exists |-> TRUE, open |-> TRUE, content |-> "empty"]
            /\ this_call' = [kind |-> "normal", pickles |-> 0, starts |-> 0,
                             first_writes |-> 0]
            /\ publish_pc' = "with"
            /\ UNCHANGED publish_files
    /\ UNCHANGED <<asset_publishes, started>>
    /\ UNCHANGED notBuilderVars

\* pickle.dump(self.build_context, f); ok is whether every object of the
\* build context could be pickled.
publish_pickle_dump(ok) ==
    /\ publish_pc = "with"
    /\ IF ok
       THEN /\ pickle_file' = [pickle_file EXCEPT !.content = "build_context"]
            /\ this_call' = [this_call EXCEPT !.pickles = @ + 1]
            /\ publish_pc' = "dumped"
       ELSE /\ pickle_file' = [pickle_file EXCEPT !.content = "partial"]
            /\ publish_pc' = "raising"
            /\ UNCHANGED this_call
    /\ UNCHANGED <<asset_publishes, publish_files, started, publish_calls>>
    /\ UNCHANGED notBuilderVars

\* The with block is left and closes the file; an exception of pickle.dump
\* then leaves publish().
publish_with_exit ==
    /\ publish_pc \in {"dumped", "raising"}
    /\ ~start_publish_point(publish_pc)
    /\ pickle_file' = [pickle_file EXCEPT !.open = FALSE]
    /\ publish_pc' = IF publish_pc = "dumped" THEN "closed" ELSE "idle"
    /\ UNCHANGED <<asset_publishes, publish_files, started, publish_calls, this_call>>
    /\ UNCHANGED notBuilderVars

\* BuilderBlenderStarter.start_publish(asset_publishes[0].path, pickle_path),
\* the last statement of publish().
publish_start_publish ==
    /\ start_publish_point(publish_pc)
    /\ started' = Append(started, [path |-> asset_publishes[1],
                                   pickle |-> pickle_file])
    /\ this_call' = [this_call EXCEPT !.starts = @ + 1]
    /\ pickle_file' = [pickle_file EXCEPT !.open = FALSE]
    /\ publish_pc' = "idle"
    /\ UNCHANGED <<asset_publishes, publish_files, publish_calls>>
    /\ UNCHANGED notBuilderVars

\* A new AssetBuilder is made from a build context that was collected anew:
\* its asset publishes are the versions on disk.
new_build_context ==
    /\ publish_pc = "idle"
    /\ asset_publishes # SelectSeq(PublishVersions, LAMBDA v : v \in publish_files)
    /\ asset_publishes' = SelectSeq(PublishVersions, LAMBDA v : v \in publish_files)
    /\ UNCHANGED <<publish_pc, publish_files, pickle_file, started, publish_calls,
                   this_call>>
    /\ UNCHANGED notBuilderVars

\* The started instance publishes a further version of the asset.
instance_adds_version ==
    /\ publish_pc = "idle"
    /\ started # <<>>
    /\ publish_files = {PublishVersions[1]}
    /\ publish_files' = Range(PublishVersions)
    /\ UNCHANGED <<publish_pc, asset_publishes, pickle_file, started, publish_calls,
                   this_call>>
    /\ UNCHANGED notBuilderVars

BuilderNext ==
    \/ publish_begin
    \/ \E ok \in BOOLEAN : publish_pickle_dump(ok)
    \/ publish_with_exit
    \/ publish_start_publish
    \/ new_build_context
    \/ instance_adds_version

(***************************************************************************)
(* render_review/ops.py: RR_OT_sqe_isolate_strip_enter / _exit             *)
(***************************************************************************)
\* "top" and "meta" are strips of the top level; "meta" is a meta strip and
\* holds the strips of nested.
StripNames == {"top", "meta", "in1", "in2"}

IsolateIdle ==
    /\ existing = {}
    /\ nested = {}
    /\ mute = [s \in StripNames |-> FALSE]
    /\ isolate_view = <<>>
    /\ selected = {}
    /\ mute_before = [s \in StripNames |-> FALSE]
    /\ isolate_op = "none"

IsolateInit ==
    /\ nested \in SUBSET {"in1", "in2"}
    /\ existing = IF nested = {} THEN {"top", "in1", "in2"}
                  ELSE {"top", "meta", "in1", "in2"}
    /\ mute \in [StripNames -> BOOLEAN]
    /\ \A s \in StripNames \ existing : ~mute[s]
    /\ isolate_view = <<>>
    /\ selected = {}
    /\ mute_before = mute
    /\ isolate_op = "none"

\* sequence_editor.sequences_all: all strips, those inside meta strips included.
sequences_all == existing

\* sequence_editor.sequences: the strips of the top level only.
sequences == existing \ nested

\* The order in which the host iterates a collection of strips.
StripOrder == <<"top", "meta", "in1", "in2">>

AsList(S) == SelectSeq(StripOrder, LAMBDA s : s \in S)

\* The mute flags after the loop of RR_OT_sqe_isolate_strip_exit.execute over
\* the items of view: an item whose name is no key of sequences is skipped.
RECURSIVE exit_restore(_, _, _)
exit_restore(m, view, lookup) ==
    IF view = <<>> THEN m
    ELSE exit_restore(
             IF Head(view).name \in lookup
             THEN [m EXCEPT ![Head(view).name] = Head(view).mute]
             ELSE m,
             Tail(view), lookup)

\* The items enter adds to isolate_view for the strips of the list seqs.
RECURSIVE enter_items(_, _)
enter_items(seqs, m) ==
    IF seqs = <<>> THEN <<>>
    ELSE LET item == [name |-> Head(seqs), mute |-> m[Head(seqs)]]
         IN  <<item>> \o enter_items(Tail(seqs), m)

\* RR_OT_sqe_isolate_strip_exit.execute
sqe_isolate_strip_exit ==
    /\ mute' = exit_restore(mute, isolate_view, sequences)
    /\ isolate_view' = <<>>
    /\ isolate_op' = "exit"
    /\ UNCHANGED <<existing, nested, selected, mute_before>>
    /\ UNCHANGED notIsolateVars

\* RR_OT_sqe_isolate_strip_enter.execute with the selection sel; poll needs an
\* active strip.
sqe_isolate_strip_enter(sel) ==
    /\ existing # {}
    /\ LET seqs == AsList(sequences_all)
           restored == IF isolate_view # <<>>
                       THEN exit_restore(mute, isolate_view, sequences)
                       ELSE mute
       IN  /\ isolate_view' = enter_items(seqs, restored)
           /\ mute' = [s \in StripNames |->
                          IF s \in sel THEN FALSE
                          ELSE IF s \in Range(seqs) THEN TRUE
                          ELSE restored[s]]
    /\ selected' = sel
    /\ mute_before' = IF isolate_view = <<>> THEN mute ELSE mute_before
    /\ isolate_op' = "enter"
    /\ UNCHANGED <<existing, nested>>
    /\ UNCHANGED notIsolateVars

\* The user toggles the mute of a strip outside of the isolate view.
user_toggle_mute(s) ==
    /\ isolate_view = <<>>
    /\ s \in existing
    /\ mute' = [mute EXCEPT ![s] = ~@]
    /\ mute_before' = mute'
    /\ isolate_op' = "none"
    /\ UNCHANGED <<existing, nested, isolate_view, selected>>
    /\ UNCHANGED notIsolateVars

\* The user deletes a strip of the top level that holds no other strips.
user_delete_strip(s) ==
    /\ s \in sequences
    /\ s # "meta"
    /\ Cardinality(sequences) > 1
    /\ existing' = existing \ {s}
    /\ mute' = [mute EXCEPT ![s] = FALSE]
    /\ mute_before' = [mute_before EXCEPT ![s] = FALSE]
    /\ isolate_op' = IF isolate_op = "exit" THEN "none" ELSE isolate_op
    /\ UNCHANGED <<nested, isolate_view, selected>>
    /\ UNCHANGED notIsolateVars

IsolateNext ==
    \/ sqe_isolate_strip_exit
    \/ \E sel \in SUBSET sequences : sqe_isolate_strip_enter(sel)
    \/ \E s \in StripNames : user_toggle_mute(s)
    \/ \E s \in StripNames : user_delete_strip(s)

(***************************************************************************)
(* render_review/ops.py: RR_OT_sqe_approve_render                          *)
(***************************************************************************)
\* The render directories of the strips of one shot (farm output).
RenderDirs == {"renderA", "renderB", "renderC"}

\* opsdata.get_shot_frames_dir, get_shot_frames_backup_path and
\* get_shot_frames_metadata_path of the shot: three different paths, none
\* of them inside another.
ShotFramesDir == "shot_frames_dir"

ShotFramesBackupPath == "shot_frames_backup_path"

MetadataPath == "metadata_path"

\* A path that does not exist.
Missing == [kind |-> "missing", files |-> {}, source_current |-> "",
            source_backup |-> ""]

\* A directory, with the set of render directories whose files it holds.
Dir(files) == [kind |-> "dir", files |-> files, source_current |-> "",
               source_backup |-> ""]

\* A metadata.json with the keys source_current and source_backup.
Json(current, backup) == [kind |-> "json", files |-> {}, source_current |-> current,
                          source_backup |-> backup]

ApproveIdle ==
    /\ fs = [p \in {ShotFramesDir, ShotFramesBackupPath, MetadataPath} |-> Missing]
    /\ approve_pc = "idle"
    /\ strip_dir = "renderA"
    /\ fs_log = <<>>
    /\ approve_pre = fs

ApproveInit == ApproveIdle

path_exists(p) == fs[p] # Missing

\* execute up to the test of shot_frames_dir.exists(); the else branch
\* (mkdir) is part of this step.
approve_render_begin(dir) ==
    /\ approve_pc = "idle"
    /\ strip_dir' = dir
    /\ approve_pre' = fs
    /\ IF path_exists(ShotFramesDir)
       THEN /\ approve_pc' = "backup_exists"
            /\ fs_log' = <<>>
            /\ UNCHANGED fs
       ELSE /\ fs' = [fs EXCEPT ![ShotFramesDir] = Dir({})]
            /\ fs_log' = <<"mkdir">>
            /\ approve_pc' = "copy"
    /\ UNCHANGED notApproveVars

\* "Delete backup if exists."
approve_render_delete_backup ==
    /\ approve_pc = "backup_exists"
    /\ IF path_exists(ShotFramesBackupPath)
       THEN /\ fs' = [fs EXCEPT ![ShotFramesBackupPath] = Missing]
            /\ fs_log' = Append(fs_log, "rmtree")
       ELSE UNCHANGED <<fs, fs_log>>
    /\ approve_pc' = "rename"
    /\ UNCHANGED <<strip_dir, approve_pre>>
    /\ UNCHANGED notApproveVars

\* The file system after "Rename current to backup.".
rename_skipped(f) == f

rename_current_to_backup(f) ==
    [f EXCEPT ![ShotFramesBackupPath] = f[ShotFramesDir],
              ![ShotFramesDir] = Missing]

approve_render_rename ==
    /\ approve_pc = "rename"
    /\ fs' = rename_current_to_backup(fs)
    /\ fs_log' = Append(fs_log, "rename")
    /\ approve_pc' = "copy"
    /\ UNCHANGED <<strip_dir, approve_pre>>
    /\ UNCHANGED notApproveVars

\* copytree_verbose(strip_dir, shot_frames_dir, dirs_exist_ok=True): creates
\* the directory when it is missing and adds the files of strip_dir to it.
approve_render_copy ==
    /\ approve_pc = "copy"
    /\ fs' = [fs EXCEPT ![ShotFramesDir] = Dir(@.files \cup {strip_dir})]
    /\ fs_log' = Append(fs_log, "copytree")
    /\ approve_pc' = "metadata"
    /\ UNCHANGED <<strip_dir, approve_pre>>
    /\ UNCHANGED notApproveVars

\* "Update metadata json." and the rest of execute.
approve_render_metadata ==
    /\ approve_pc = "metadata"
    /\ fs' = [fs EXCEPT ![MetadataPath] =
                  IF @ = Missing
                  THEN Json(strip_dir, "")
                  ELSE Json(strip_dir, @.source_current)]
    /\ approve_pc' = "idle"
    /\ UNCHANGED <<strip_dir, fs_log, approve_pre>>
    /\ UNCHANGED notApproveVars

ApproveNext ==
    \/ \E dir \in RenderDirs : approve_render_begin(dir)
    \/ approve_render_delete_backup
    \/ approve_render_rename
    \/ approve_render_copy
    \/ approve_render_metadata

(***************************************************************************)
(* render_review/ops.py: RR_OT_sqe_push_to_edit                            *)
(***************************************************************************)
\* File names are sequences of characters.
Digits == <<"0", "1", "2", "3", "4", "5", "6", "7", "8", "9">>

IsDigit(c) == InSeq(c, Digits)

DigitValue(c) == (CHOOSE i \in 1..Len(Digits) : Digits[i] = c) - 1

\* The code point order of the characters that occur in the file names.
CharOrder == <<".", "0", "1", "2", "3", "4", "5", "6", "7", "8", "9",
               "a", "b", "j", "m", "n", "o", "p", "s", "v">>

Code(c) == CHOOSE i \in 1..Len(CharOrder) : CharOrder[i] = c

\* str < str of Python: lexicographic by code point.
RECURSIVE StrLess(_, _)
StrLess(a, b) ==
    IF b = <<>> THEN FALSE
    ELSE IF a = <<>> THEN TRUE
    ELSE IF Head(a) # Head(b) THEN Code(Head(a)) < Code(Head(b))
    ELSE StrLess(Tail(a), Tail(b))

startswith(name, prefix) ==
    /\ Len(prefix) <= Len(name)
    /\ SubSeq(name, 1, Len(prefix)) = prefix

\* util.get_version(name): the first match of "v" and three digits in name,
\* <<>> (None) when there is none.
get_version(name) ==
    LET hits == {i \in 1..Len(name) :
                    /\ i + 3 <= Len(name)
                    /\ name[i] = "v"
                    /\ IsDigit(name[i + 1]) /\ IsDigit(name[i + 2])
                    /\ IsDigit(name[i + 3])}
    IN  IF hits = {} THEN <<>>
        ELSE LET i == CHOOSE h \in hits : \A k \in hits : h <= k
             IN  SubSeq(name, i, i + 3)

\* name.replace(old, ""): every occurrence of old is removed, from the left.
RECURSIVE str_remove(_, _)
str_remove(name, old) ==
    IF name = <<>> THEN <<>>
    ELSE IF startswith(name, old)
    THEN str_remove(SubSeq(name, Len(old) + 1, Len(name)), old)
    ELSE <<Head(name)>> \o str_remove(Tail(name), old)

\* int(digits)
RECURSIVE str_to_int(_)
str_to_int(digits) ==
    IF digits = <<>> THEN 0
    ELSE 10 * str_to_int(SubSeq(digits, 1, Len(digits) - 1))
             + DigitValue(digits[Len(digits)])

\* str(n)
RECURSIVE int_to_str(_)
int_to_str(n) ==
    IF n < 10 THEN <<Digits[n + 1]>>
    ELSE int_to_str(n \div 10) \o <<Digits[(n % 10) + 1]>>

\* "v{:03}".format(n): at least three digits, padded with zeros.
format_version(n) ==
    LET d == int_to_str(n)
    IN  <<"v">> \o (IF Len(d) >= 3 THEN d
                    ELSE IF Len(d) = 2 THEN <<"0">> \o d
                    ELSE <<"0", "0">> \o d)

\* opsdata.get_shot_dot_task_type(render_dir) of the active strip: "s.a"
ShotDotTaskType == <<"s", ".", "a">>

Mp4 == <<".", "m", "p", "4">>

VersionedName(prefix, digits) == prefix \o <<".", "v">> \o digits \o Mp4

\* existing_files[-1] after existing_files.sort(key=lambda f: f.name): the
\* greatest name of a non-empty set of names.
last_sorted(names) ==
    CHOOSE n \in names : \A other \in names : ~StrLess(n, other)

\* The names get_edit_filepath collects in existing_files.
existing_files(dir_exists, entries) ==
    IF ~dir_exists THEN {}
    ELSE {e.name : e \in
            {f \in entries :
                /\ f.is_file
                /\ startswith(f.name, ShotDotTaskType)
                /\ get_version(f.name) # <<>>
                /\ str_remove(f.name, get_version(f.name))
                       = ShotDotTaskType \o <<".">> \o Mp4}}

\* The version number get_edit_filepath takes when a latest version exists.
next_version(latest) == str_to_int(str_remove(latest, <<"v">>)) + 1

\* RR_OT_sqe_push_to_edit.get_edit_filepath: the name of the new file.
get_edit_filepath(dir_exists, entries) ==
    LET found == existing_files(dir_exists, entries)
        increment ==
            IF found = {} THEN <<"v", "0", "0", "1">>
            ELSE format_version(next_version(get_version(last_sorted(found))))
    IN  ShotDotTaskType \o <<".">> \o increment \o Mp4

File(name) == [name |-> name, is_file |-> TRUE]

Folder(name) == [name |-> name, is_file |-> FALSE]

MetadataJson == <<"m", "j", "s", "o", "n">>

\* Bound on the number of push_to_edit executions of a behaviour.
MaxPushes == 3

\* Directory contents that earlier pushes and other shots and task types
\* leave behind; old versions may have been removed.
InitialPreviews ==
    { {},
      {File(VersionedName(ShotDotTaskType, <<"0", "0", "1">>)), File(MetadataJson)},
      {File(VersionedName(ShotDotTaskType, <<"0", "0", "2">>)),
       File(VersionedName(<<"s", ".", "a", "b">>, <<"0", "0", "7">>)),
       File(MetadataJson)},
      {Folder(VersionedName(ShotDotTaskType, <<"0", "0", "0">>)),
       File(VersionedName(ShotDotTaskType, <<"0", "0", "3">>)),
       File(VersionedName(<<"s", "2", ".", "a">>, <<"0", "0", "9">>))},
      {File(VersionedName(ShotDotTaskType, <<"0", "0", "9">>)),
       File(VersionedName(ShotDotTaskType, <<"0", "1", "0">>))},
      {File(VersionedName(ShotDotTaskType, <<"9", "9", "8">>)), File(MetadataJson)} }

PushIdle ==
    /\ previews_exists = FALSE
    /\ previews = {}
    /\ pushed = <<>>
    /\ previews_before = {}
    /\ overwrote = FALSE
    /\ push_result = "NONE"

PushInit ==
    /\ previews_exists \in BOOLEAN
    /\ previews \in InitialPreviews
    /\ ~previews_exists => previews = {}
    /\ pushed = <<>>
    /\ previews_before = {}
    /\ overwrote = FALSE
    /\ push_result = "NONE"

\* RR_OT_sqe_push_to_edit.execute; has_preview is whether the render directory
\* holds preview files (otherwise NoImageSequenceAvailableException).
sqe_push_to_edit(has_preview) ==
    /\ Len(pushed) < MaxPushes
    /\ IF ~has_preview
       THEN /\ push_result' = "CANCELLED"
            /\ UNCHANGED <<previews_exists, previews, pushed, previews_before,
                           overwrote>>
       ELSE LET edit_filepath == get_edit_filepath(TRUE, previews)
            IN  /\ previews_exists' = TRUE
                /\ overwrote' = \E f \in previews : f.name = edit_filepath
                /\ previews' = {f \in previews : f.name # edit_filepath}
                                   \cup {File(edit_filepath), File(MetadataJson)}
                /\ pushed' = Append(pushed, edit_filepath)
                /\ previews_before' = previews
                /\ push_result' = "FINISHED"
    /\ UNCHANGED notPushVars

\* Old versions are removed from the shot previews directory.
remove_old_version(f) ==
    /\ f \in previews
    /\ f.name \in existing_files(previews_exists, previews)
    /\ f.name # last_sorted(existing_files(previews_exists, previews))
    /\ previews' = previews \ {f}
    /\ UNCHANGED <<previews_exists, pushed, previews_before, overwrote,
                   push_result>>
    /\ UNCHANGED notPushVars

PushNext ==
    \/ \E has_preview \in BOOLEAN : sqe_push_to_edit(has_preview)
    \/ \E f \in previews : remove_old_version(f)

(***************************************************************************)
(* media_viewer/ops.py: load_media_movie, toggle_mute_audio, frame_offset  *)
(***************************************************************************)
\* Files the file browser can pass to load_media_movie; "still" is no movie.
MediaFiles == {"movA", "movB", "still"}

\* The selections of the file browser that load_media_movie is run with.
FileSelections == {{"movA"}, {"movB"}, {"movA", "movB"}, {"still"}, {"movA", "still"}}

is_movie(f) == f # "still"

\* Bounds on the frame range of the loaded strips, on delta and on the
\* frames the playhead is followed to.
MaxFrame == 3

MaxDelta == 4

FrameLimit == 6

ViewerIdle ==
    /\ frame_start = 0
    /\ frame_end = 0
    /\ frame_current = 0
    /\ loaded = {}
    /\ sound_mute = [f \in MediaFiles |-> FALSE]
    /\ is_muted = FALSE
    /\ viewer_op = "none"
    /\ delta = 0
    /\ frame_before = 0
    /\ sound_before = [f \in MediaFiles |-> FALSE]

\* The add-on starts with an empty sequence editor and is_muted = False.
ViewerInit == ViewerIdle

\* MV_OT_load_media_movie.execute; first..last is the frame range that
\* fit_frame_range_to_strips finds for the strips.
load_media_movie(files, append, first, last) ==
    /\ first <= last
    /\ LET filepath_list == {f \in files : is_movie(f)}
           kept == IF append THEN loaded ELSE {}
           filepaths_import == IF append THEN filepath_list \ loaded
                               ELSE filepath_list
       IN  /\ loaded' = IF filepath_list = {} THEN kept
                        ELSE kept \cup filepaths_import
           /\ sound_mute' = [f \in MediaFiles |->
                                IF f \in kept THEN sound_mute[f] ELSE FALSE]
           /\ IF filepath_list = {}
              THEN UNCHANGED <<frame_start, frame_end, frame_current>>
              ELSE /\ frame_start' = first
                   /\ frame_end' = last
                   /\ frame_current' = first
    /\ viewer_op' = "load"
    /\ frame_before' = frame_current'
    /\ sound_before' = sound_mute'
    /\ UNCHANGED <<is_muted, delta>>
    /\ UNCHANGED notViewerVars

\* MV_OT_toggle_mute_audio.execute
toggle_mute_audio ==
    /\ sound_mute' = [f \in MediaFiles |->
                         IF f \in loaded THEN ~is_muted ELSE sound_mute[f]]
    /\ is_muted' = ~is_muted
    /\ viewer_op' = "toggle"
    /\ frame_before' = frame_current
    /\ sound_before' = sound_mute
    /\ UNCHANGED <<frame_start, frame_end, frame_current, loaded, delta>>
    /\ UNCHANGED notViewerVars

\* The new frame_current of MV_OT_frame_offset.execute.
frame_offset_result(start, end, current, d) ==
    IF current \notin start..end THEN current + d
    ELSE IF current + d < start
    THEN (end + 1) + ((current + d) - start)
    ELSE IF current + d > end
    THEN (start - 1) + ((current + d) - end)
    ELSE current + d

\* MV_OT_frame_offset.execute
frame_offset(d) ==
    /\ frame_offset_result(frame_start, frame_end, frame_current, d)
           \in -FrameLimit..FrameLimit
    /\ frame_current' = frame_offset_result(frame_start, frame_end, frame_current, d)
    /\ delta' = d
    /\ viewer_op' = "frame_offset"
    /\ frame_before' = frame_current
    /\ sound_before' = sound_mute
    /\ UNCHANGED <<frame_start, frame_end, loaded, sound_mute, is_muted>>
    /\ UNCHANGED notViewerVars

ViewerNext ==
    \/ \E files \in FileSelections, append \in BOOLEAN,
          first \in 0..1, last \in 0..MaxFrame :
           load_media_movie(files, append, first, last)
    \/ toggle_mute_audio
    \/ \E d \in -MaxDelta..MaxDelta : frame_offset(d)

(***************************************************************************)
(* pose_shape_keys/pose_key.py: PoseShapeKeyTarget                         *)
(***************************************************************************)
\* A name is a pair <<base, n>>: <<"Key", 0>> is "Key", <<"Key", 1>> is
\* "Key.001", the form the host gives a name that is already taken.
Plain(base) == <<base, 0>>

\* The default of a StringProperty.
EmptyName == Plain("")

\* The names typed into the name fields.
PoseNames == {Plain("Key"), Plain("Lip")}

\* The largest number of shape keys of the mesh that is followed.
MaxKeyBlocks == 3

\* The name a shape key gets when it is named n next to the keys others:
\* names of key blocks are unique, a taken name gets a numeric suffix.
unique_name(n, others) ==
    IF n \notin others THEN n
    ELSE <<n[1], CHOOSE j \in 1..(MaxKeyBlocks + 1) :
                    /\ <<n[1], j>> \notin others
                    /\ \A k \in 1..(j - 1) : <<n[1], k>> \in others>>

\* A running update callback and where it stands.
Frame(fn, pc) == [fn |-> fn, pc |-> pc]

Push(stack, frame) == Append(stack, frame)

Pop(stack) == SubSeq(stack, 1, Len(stack) - 1)

Top(stack) == stack[Len(stack)]

\* The innermost callback moves to pc and calls the callback fn.
Call(stack, pc, fn) ==
    Push(Append(Pop(stack), Frame(Top(stack).fn, pc)), Frame(fn, "start"))

PoseIdle ==
    /\ target_name = EmptyName
    /\ shape_key_name = EmptyName
    /\ block_name_update = FALSE
    /\ key_blocks = {}
    /\ pose_stack = <<>>
    /\ update_calls = 0
    /\ pose_op = "none"
    /\ shape_key_name_before = EmptyName
    /\ key_blocks_before = {}

\* A target that was just added to target_shapes: every property has its
\* default; the mesh has no shape keys yet or a Basis and one key.
PoseInit ==
    /\ target_name = EmptyName
    /\ shape_key_name = EmptyName
    /\ block_name_update = FALSE
    /\ key_blocks \in {{}, {Plain("Basis"), Plain("Key")}}
    /\ pose_stack = <<>>
    /\ update_calls = 0
    /\ pose_op = "none"
    /\ shape_key_name_before = EmptyName
    /\ key_blocks_before = {}

\* target.name = v, from the user interface: the property is set and its
\* update callback update_name is called.
set_name(v) ==
    /\ pose_stack = <<>>
    /\ target_name' = v
    /\ pose_stack' = <<Frame("update_name", "start")>>
    /\ update_calls' = 1
    /\ pose_op' = "set_name"
    /\ shape_key_name_before' = shape_key_name
    /\ key_blocks_before' = key_blocks
    /\ UNCHANGED <<shape_key_name, block_name_update, key_blocks>>
    /\ UNCHANGED notPoseVars

\* target.shape_key_name = v, from the user interface: the property is set
\* and its update callback update_shape_key_name is called.
set_shape_key_name(v) ==
    /\ pose_stack = <<>>
    /\ shape_key_name' = v
    /\ pose_stack' = <<Frame("update_shape_key_name", "start")>>
    /\ update_calls' = 1
    /\ pose_op' = "set_shape_key_name"
    /\ shape_key_name_before' = shape_key_name
    /\ key_blocks_before' = key_blocks
    /\ UNCHANGED <<target_name, block_name_update, key_blocks>>
    /\ UNCHANGED notPoseVars

\* PoseShapeKeyTarget.update_name up to and including the assignment to
\* self.shape_key_name, which calls update_shape_key_name.
update_name ==
    /\ pose_stack # <<>>
    /\ Top(pose_stack) = Frame("update_name", "start")
    /\ IF block_name_update \/ key_blocks = {}
       THEN /\ pose_stack' = Pop(pose_stack)
            /\ UNCHANGED <<shape_key_name, key_blocks, update_calls>>
       ELSE /\ key_blocks' =
                   IF shape_key_name \in key_blocks
                   THEN LET others == key_blocks \ {shape_key_name}
                        IN  others \cup {unique_name(target_name, others)}
                   ELSE key_blocks
            /\ shape_key_name' = target_name
            /\ pose_stack' = Call(pose_stack, "return", "update_shape_key_name")
            /\ update_calls' = update_calls + 1
    /\ UNCHANGED <<target_name, block_name_update, pose_op,
                   shape_key_name_before, key_blocks_before>>
    /\ UNCHANGED notPoseVars

\* PoseShapeKeyTarget.update_name returns after the assignment.
update_name_return ==
    /\ pose_stack # <<>>
    /\ Top(pose_stack) = Frame("update_name", "return")
    /\ pose_stack' = Pop(pose_stack)
    /\ UNCHANGED <<target_name, shape_key_name, block_name_update, key_blocks,
                   update_calls, pose_op, shape_key_name_before,
                   key_blocks_before>>
    /\ UNCHANGED notPoseVars

\* PoseShapeKeyTarget.update_shape_key_name up to and including the
\* assignment to self.name, which calls update_name.
update_shape_key_name ==
    /\ pose_stack # <<>>
    /\ Top(pose_stack) = Frame("update_shape_key_name", "start")
    /\ block_name_update' = TRUE
    /\ target_name' = shape_key_name
    /\ pose_stack' = Call(pose_stack, "reset", "update_name")
    /\ update_calls' = update_calls + 1
    /\ UNCHANGED <<shape_key_name, key_blocks, pose_op, shape_key_name_before,
                   key_blocks_before>>
    /\ UNCHANGED notPoseVars

\* PoseShapeKeyTarget.update_shape_key_name after the assignment.
update_shape_key_name_reset ==
    /\ pose_stack # <<>>
    /\ Top(pose_stack) = Frame("update_shape_key_name", "reset")
    /\ block_name_update' = FALSE
    /\ pose_stack' = Pop(pose_stack)
    /\ UNCHANGED <<target_name, shape_key_name, key_blocks, update_calls,
                   pose_op, shape_key_name_before, key_blocks_before>>
    /\ UNCHANGED notPoseVars

\* OBJECT_OT_Create_ShapeKey_For_Pose.execute: the Basis key is ensured, a
\* key named sk_name is added and target.name is set to the name it got.
create_shape_key_for_pose(sk_name) ==
    /\ pose_stack = <<>>
    /\ LET with_basis == IF key_blocks = {} THEN {Plain("Basis")} ELSE key_blocks
           new_sk == unique_name(sk_name, with_basis)
       IN  /\ Cardinality(with_basis) < MaxKeyBlocks
           /\ key_blocks' = with_basis \cup {new_sk}
           /\ target_name' = new_sk
           /\ key_blocks_before' = with_basis \cup {new_sk}
    /\ pose_stack' = <<Frame("update_name", "start")>>
    /\ update_calls' = 1
    /\ pose_op' = "create_shape_key_for_pose"
    /\ shape_key_name_before' = shape_key_name
    /\ UNCHANGED <<shape_key_name, block_name_update>>
    /\ UNCHANGED notPoseVars

\* The user removes all shape keys of the mesh.
user_shape_key_clear ==
    /\ pose_stack = <<>>
    /\ key_blocks # {}
    /\ key_blocks' = {}
    /\ pose_op' = "shape_key_clear"
    /\ UNCHANGED <<target_name, shape_key_name, block_name_update, pose_stack,
                   update_calls, shape_key_name_before, key_blocks_before>>
    /\ UNCHANGED notPoseVars

PoseNext ==
    \/ \E v \in PoseNames : set_name(v)
    \/ \E v \in PoseNames \cup key_blocks : set_shape_key_name(v)
    \/ update_name
    \/ update_name_return
    \/ update_shape_key_name
    \/ update_shape_key_name_reset
    \/ \E sk_name \in PoseNames : create_shape_key_for_pose(sk_name)
    \/ user_shape_key_clear

(***************************************************************************)
(* render_review/__init__.py and render_review/ops.py: registration        *)
(***************************************************************************)
\* The modules that render_review/__init__.py imports and registers.
RRModules == {"props", "ops", "ui"}

\* Bound on len(ops.addon_keymap_items).
MaxKeymapItems == 16

RegisterIdle ==
    /\ rr_pc = "idle"
    /\ rr_registered = {}
    /\ addon_keymap_items = 0
    /\ window_keymap_items = 0
    /\ background = FALSE
    /\ rr_op = "none"
    /\ rr_calls = <<>>
    /\ rr_raised = FALSE
    /\ rr_registered_before = {}

\* The add-on is imported and not yet enabled; the host runs with a user
\* interface or in background.
RegisterInit ==
    /\ rr_pc = "idle"
    /\ rr_registered = {}
    /\ addon_keymap_items = 0
    /\ window_keymap_items = 0
    /\ background \in BOOLEAN
    /\ rr_op = "none"
    /\ rr_calls = <<>>
    /\ rr_raised = FALSE
    /\ rr_registered_before = {}

\* A package function is called; its first statement is at pc.
rr_begin(op, pc) ==
    /\ rr_pc = "idle"
    /\ addon_keymap_items + 2 <= MaxKeymapItems
    /\ rr_pc' = pc
    /\ rr_op' = op
    /\ rr_calls' = <<>>
    /\ rr_raised' = FALSE
    /\ rr_registered_before' = rr_registered
    /\ UNCHANGED <<rr_registered, addon_keymap_items, window_keymap_items,
                   background>>
    /\ UNCHANGED notRegisterVars

\* ops.register(): every class is registered, then the two hotkeys are added
\* unless the host runs in background.
ops_register ==
    /\ rr_registered' = rr_registered \cup {"ops"}
    /\ IF background
       THEN UNCHANGED <<addon_keymap_items, window_keymap_items>>
       ELSE /\ addon_keymap_items' = addon_keymap_items + 2
            /\ window_keymap_items' = window_keymap_items + 2

\* props.register() and ui.register(): the classes of the module are
\* registered.
module_register(mod) ==
    /\ rr_registered' = rr_registered \cup {mod}
    /\ UNCHANGED <<addon_keymap_items, window_keymap_items>>

\* The statement at pc of a package function calls mod.register() and goes on
\* at next. When the classes of mod are registered already, the host raises
\* from register_class (raises) or registers them again; the exception ends
\* the package function.
rr_call_register(pc, mod, next, raises) ==
    /\ rr_pc = pc
    /\ rr_calls' = Append(rr_calls, <<mod, "register">>)
    /\ IF raises /\ mod \in rr_registered
       THEN /\ rr_pc' = "idle"
            /\ rr_raised' = TRUE
            /\ UNCHANGED <<rr_registered, addon_keymap_items, window_keymap_items>>
       ELSE /\ rr_pc' = next
            /\ rr_raised' = FALSE
            /\ IF mod = "ops" THEN ops_register ELSE module_register(mod)
    /\ UNCHANGED <<background, rr_op, rr_registered_before>>
    /\ UNCHANGED notRegisterVars

\* render_review.register()
register ==
    /\ rr_pc = "idle"
    /\ rr_begin("register", "register_props")

register_props(raises) ==
    /\ rr_pc = "register_props"
    /\ rr_call_register("register_props", "props", "register_ops", raises)

register_ops(raises) ==
    /\ rr_pc = "register_ops"
    /\ rr_call_register("register_ops", "ops", "register_ui", raises)

register_ui(raises) ==
    /\ rr_pc = "register_ui"
    /\ rr_call_register("register_ui", "ui", "idle", raises)

\* render_review.unregister()
unregister ==
    /\ rr_pc = "idle"
    /\ rr_begin("unregister", "unregister_ui")

unregister_ui(raises) ==
    /\ rr_pc = "unregister_ui"
    /\ rr_call_register("unregister_ui", "ui", "unregister_ops", raises)

unregister_ops(raises) ==
    /\ rr_pc = "unregister_ops"
    /\ rr_call_register("unregister_ops", "ops", "unregister_props", raises)

unregister_props(raises) ==
    /\ rr_pc = "unregister_props"
    /\ rr_call_register("unregister_props", "props", "idle", raises)

RegisterNext ==
    \/ register
    \/ \E raises \in BOOLEAN : register_props(raises)
    \/ \E raises \in BOOLEAN : register_ops(raises)
    \/ \E raises \in BOOLEAN : register_ui(raises)
    \/ unregister
    \/ \E raises \in BOOLEAN : unregister_ui(raises)
    \/ \E raises \in BOOLEAN : unregister_ops(raises)
    \/ \E raises \in BOOLEAN : unregister_props(raises)

(***************************************************************************)
(* blender_studio_pipeline/asset_pipeline/builder/task_layer.py            *)
(***************************************************************************)
\* A TaskLayer class: cls tells classes apart, cls_name is cls.__name__.
TaskLayer(cls, cls_name, order) ==
    [cls |-> cls, cls_name |-> cls_name, order |-> order]

\* The task layer classes of a production; two modules may define classes of
\* the same name, and two task layers may have the same order.
TaskLayerClasses ==
    { TaskLayer(1, "RigTaskLayer", 1), TaskLayer(2, "ShadeTaskLayer", 2),
      TaskLayer(3, "RigTaskLayer", 0), TaskLayer(4, "ModelTaskLayer", 1) }

\* Bound on the length of the list passed to TaskLayerAssembly.
MaxTaskLayers == 3

\* The lists of task layer classes that are passed to TaskLayerAssembly.
TaskLayerLists ==
    UNION {[1..n -> TaskLayerClasses] : n \in 0..MaxTaskLayers}

\* TaskLayerConfig.__init__
TaskLayerConfig(task_layer) == [task_layer |-> task_layer, use |-> FALSE]

\* {} as Dict[str, TaskLayerConfig]
EmptyDict == [key \in {} |-> 0]

\* d[key] = value
dict_set(d, key, value) ==
    [k \in DOMAIN d \cup {key} |-> IF k = key THEN value ELSE d[k]]

dict_clear_skipped(d) == d

\* self._task_layer_config_dict.clear()
dict_clear(d) == EmptyDict

\* list.sort(key=...): elements ordered by ascending key, elements of equal
\* key in their previous order; keys[i] is the key of list[i].
list_sort(list, keys) ==
    LET n == Len(list)
        rank(i) == 1 + Cardinality({j \in 1..n : keys[j] < keys[i]})
                     + Cardinality({j \in 1..(i - 1) : keys[j] = keys[i]})
    IN  [r \in 1..n |-> list[CHOOSE i \in 1..n : rank(i) = r]]

sort_task_layers_skipped(list) == list

\* self._task_layers.sort(key=lambda tl: tl.order)
sort_task_layers(list) ==
    list_sort(list, [i \in 1..Len(list) |-> list[i].order])

\* self._task_layer_configs.sort(key=lambda tc: tc.task_layer.order)
sort_task_layer_configs(configs, objs) ==
    list_sort(configs, [i \in 1..Len(configs) |-> objs[configs[i]].task_layer.order])

\* The for loop of TaskLayerAssembly.__init__ from the i-th task layer on.
RECURSIVE init_loop(_, _, _, _, _)
init_loop(list, i, d, configs, objs) ==
    IF i > Len(list)
    THEN [raised |-> FALSE, dict |-> d, configs |-> configs, objs |-> objs]
    ELSE IF list[i].cls_name \in DOMAIN d
    THEN [raised |-> TRUE, dict |-> dict_clear(d), configs |-> configs,
          objs |-> objs]
    ELSE LET tc == Len(objs) + 1
         IN  init_loop(list, i + 1, dict_set(d, list[i].cls_name, tc),
                       Append(configs, tc),
                       Append(objs, TaskLayerConfig(list[i])))

AssemblyIdle ==
    /\ assembly = "none"
    /\ task_layer_config_dict = EmptyDict
    /\ task_layers = <<>>
    /\ task_layer_configs = <<>>
    /\ config_objects = <<>>
    /\ init_task_layers = <<>>
    /\ assembly_op = "none"

\* No TaskLayerAssembly has been constructed.
AssemblyInit == AssemblyIdle

\* TaskLayerAssembly.__init__
TaskLayerAssembly_init(list) ==
    /\ LET r == init_loop(list, 1, EmptyDict, <<>>, <<>>)
       IN  /\ assembly' = IF r.raised THEN "raised" ELSE "built"
           /\ task_layer_config_dict' = r.dict
           /\ config_objects' = r.objs
           /\ task_layer_configs' =
                  IF r.raised THEN r.configs
                  ELSE sort_task_layer_configs(r.configs, r.objs)
           /\ task_layers' = IF r.raised THEN list ELSE sort_task_layers(list)
    /\ init_task_layers' = list
    /\ assembly_op' = "init"
    /\ UNCHANGED notAssemblyVars

\* get_task_layer_config(key).use = value
set_use(key, value) ==
    /\ assembly = "built"
    /\ key \in DOMAIN task_layer_config_dict
    /\ config_objects' =
           [config_objects EXCEPT ![task_layer_config_dict[key]].use = value]
    /\ assembly_op' = "set_use"
    /\ UNCHANGED <<assembly, task_layer_config_dict, task_layers,
                   task_layer_configs, init_task_layers>>
    /\ UNCHANGED notAssemblyVars

\* task_layer_configs[i].reset()
reset(i) ==
    /\ assembly = "built"
    /\ i \in 1..Len(task_layer_configs)
    /\ config_objects' =
           [config_objects EXCEPT ![task_layer_configs[i]].use = FALSE]
    /\ assembly_op' = "reset"
    /\ UNCHANGED <<assembly, task_layer_config_dict, task_layers,
                   task_layer_configs, init_task_layers>>
    /\ UNCHANGED notAssemblyVars

\* The config objects of task_layer_configs that are in use, in list order.
used_configs ==
    SelectSeq(task_layer_configs, LAMBDA tc : config_objects[tc].use)

\* TaskLayerAssembly.get_used_task_layers
get_used_task_layers ==
    [i \in 1..Len(used_configs) |-> config_objects[used_configs[i]].task_layer]

\* TaskLayerAssembly.get_task_layer_orders
get_task_layer_orders(only_used) ==
    IF ~only_used
    THEN [i \in 1..Len(task_layers) |-> task_layers[i].order]
    ELSE [i \in 1..Len(used_configs) |->
             config_objects[used_configs[i]].task_layer.order]

\* TaskLayerAssembly.__bool__
assembly_bool == task_layer_config_dict # EmptyDict

AssemblyNext ==
    \/ \E list \in TaskLayerLists : TaskLayerAssembly_init(list)
    \/ \E key \in DOMAIN task_layer_config_dict, value \in BOOLEAN :
           set_use(key, value)
    \/ \E i \in 1..MaxTaskLayers : reset(i)

(***************************************************************************)
(* Specifications                                                          *)
(***************************************************************************)
Init ==
    SyncInit /\ MatIdle /\ BuilderIdle /\ IsolateIdle /\ ApproveIdle /\ PushIdle
    /\ ViewerIdle
    /\ PoseIdle
    /\ RegisterIdle
    /\ AssemblyIdle

Spec == Init /\ [][SyncNext]_vars

InitMaterials ==
    MatInit /\ SyncIdle /\ BuilderIdle /\ IsolateIdle /\ ApproveIdle /\ PushIdle
    /\ ViewerIdle
    /\ PoseIdle
    /\ RegisterIdle
    /\ AssemblyIdle

SpecMaterials == InitMaterials /\ [][MatNext]_vars

InitBuilder ==
    BuilderInit /\ SyncIdle /\ MatIdle /\ IsolateIdle /\ ApproveIdle /\ PushIdle
    /\ ViewerIdle
    /\ PoseIdle
    /\ RegisterIdle
    /\ AssemblyIdle

SpecBuilder == InitBuilder /\ [][BuilderNext]_vars

InitIsolate ==
    IsolateInit /\ SyncIdle /\ MatIdle /\ BuilderIdle /\ ApproveIdle /\ PushIdle
    /\ ViewerIdle
    /\ PoseIdle
    /\ RegisterIdle
    /\ AssemblyIdle

SpecIsolate == InitIsolate /\ [][IsolateNext]_vars

InitApprove ==
    ApproveInit /\ SyncIdle /\ MatIdle /\ BuilderIdle /\ IsolateIdle /\ PushIdle
    /\ ViewerIdle
    /\ PoseIdle
    /\ RegisterIdle
    /\ AssemblyIdle

SpecApprove == InitApprove /\ [][ApproveNext]_vars

InitPushToEdit ==
    PushInit /\ SyncIdle /\ MatIdle /\ BuilderIdle /\ IsolateIdle /\ ApproveIdle /\ ViewerIdle
    /\ PoseIdle
    /\ RegisterIdle
    /\ AssemblyIdle

SpecPushToEdit == InitPushToEdit /\ [][PushNext]_vars

InitViewer ==
    ViewerInit /\ SyncIdle /\ MatIdle /\ BuilderIdle /\ IsolateIdle /\ ApproveIdle /\ PushIdle
    /\ PoseIdle
    /\ RegisterIdle
    /\ AssemblyIdle

SpecViewer == InitViewer /\ [][ViewerNext]_vars

InitPose ==
    PoseInit /\ SyncIdle /\ MatIdle /\ BuilderIdle /\ IsolateIdle /\ ApproveIdle
    /\ PushIdle /\ ViewerIdle
    /\ RegisterIdle
    /\ AssemblyIdle

SpecPose == InitPose /\ [][PoseNext]_vars

InitRegister ==
    RegisterInit /\ SyncIdle /\ MatIdle /\ BuilderIdle /\ IsolateIdle
    /\ ApproveIdle /\ PushIdle /\ ViewerIdle /\ PoseIdle
    /\ AssemblyIdle

SpecRegister == InitRegister /\ [][RegisterNext]_vars

InitAssembly ==
    AssemblyInit /\ SyncIdle /\ MatIdle /\ BuilderIdle /\ IsolateIdle
    /\ ApproveIdle /\ PushIdle /\ ViewerIdle /\ PoseIdle /\ RegisterIdle

SpecAssembly == InitAssembly /\ [][AssemblyNext]_vars

(***************************************************************************)
(* Claims about asset_pipeline/sync.py (specification Spec)                *)
(***************************************************************************)
PushMerge(m) == m.phase = "push"

\* C1: in both sync directions every task layer is taken from exactly one
\* file: a pull merges into the working file with local_tls = the working
\* file's local task layers and the sync target as external file; every push
\* merge has the working file as external file and local_tls = the
\* TASK_LAYER_TYPES that are not local task layers of the working file, so the
\* layers kept and the layers taken are disjoint and cover TASK_LAYER_TYPES.
C1_OneFilePerTaskLayer ==
    \A i \in 1..Len(merges) :
        LET m == merges[i]
            kept == Range(m.local_tls)
            working == Range(local_task_layers)
        IN  /\ ~PushMerge(m) =>
                   /\ m.into = WorkingFile
                   /\ m.local_tls = local_task_layers
                   /\ m.external_file = sync_target
            /\ PushMerge(m) =>
                   /\ m.into \in Range(push_targets)
                   /\ m.external_file = WorkingFile
                   /\ kept \cap working = {}
                   /\ kept \cup working = Range(TASK_LAYER_TYPES)

\* Witness of C1: a pull and a push merge happened for a working file that
\* owns some but not all task layers.
C1_Witness ==
    /\ \E i \in 1..Len(merges) : ~PushMerge(merges[i])
    /\ \E i \in 1..Len(merges) :
           PushMerge(merges[i]) /\ merges[i].local_tls # <<>>
    /\ local_task_layers # <<>>

\* C3: sync_execute_prepare_sync removes the invalid objects exactly when the
\* sync target exists; otherwise it returns CANCELLED and the scene's objects
\* are unchanged.
C3_CancelledPrepareRemovesNothing ==
    [][(sync_pc = "invoked" /\ sync_pc' # "invoked") =>
          IF sync_target_exists
          THEN sync_result' # "CANCELLED" /\ objects' = objects \ invalid_objs
          ELSE sync_result' = "CANCELLED" /\ objects' = objects]_vars

\* Witness of C3: prepare_sync was cancelled while invalid objects had been
\* collected, and they are all still in the scene.
C3_Witness ==
    /\ sync_pc = "cancelled"
    /\ sync_result = "CANCELLED"
    /\ ~sync_target_exists
    /\ invalid_objs # {}
    /\ invalid_objs \subseteq objects

\* C4: a push target is saved only after its own merge returned no error;
\* when a merge returns an error, sync_error is set, the push returns
\* CANCELLED, the failing target is not saved, it is the last target opened
\* and merged, and the targets merged before it stay saved.
C4_PushErrorStops ==
    /\ \A i \in 1..Len(saved) :
           \E j \in 1..Len(merges) :
               PushMerge(merges[j]) /\ merges[j].into = saved[i] /\ ~merges[j].error
    /\ \A j \in 1..Len(merges) :
           PushMerge(merges[j]) =>
               IF merges[j].error
               THEN /\ sync_error
                    /\ sync_result = "CANCELLED"
                    /\ sync_pc = "cancelled"
                    /\ ~InSeq(merges[j].into, saved)
                    /\ j = Len(merges)
                    /\ opened # <<>> /\ opened[Len(opened)] = merges[j].into
                    /\ opened = SubSeq(push_targets, 1, Len(opened))
               ELSE InSeq(merges[j].into, saved)

\* Witness of C4: a push stopped at a failing target after an earlier target
\* had been saved and before a later target was opened.
C4_Witness ==
    /\ sync_pc = "cancelled"
    /\ saved # <<>>
    /\ merges # <<>>
    /\ PushMerge(merges[Len(merges)]) /\ merges[Len(merges)].error
    /\ Len(opened) < Len(push_targets)


(***************************************************************************)
(* Claims about materials.py (specification SpecMaterials)                 *)
(***************************************************************************)
HasMaterialOwner(obj) ==
    \E i \in 1..Len(transfer_data_ownership[obj]) :
        /\ transfer_data_ownership[obj][i].type = MATERIAL_SLOT_KEY
        /\ transfer_data_ownership[obj][i].name = MATERIAL_TRANSFER_DATA_ITEM_NAME

Proposals(temp, obj) == {i \in 1..Len(temp) : temp[i].obj = obj}

\* C5: a step proposes a new material-slot ownership item for an object only
\* if the object's type can carry material slots and the object has no
\* material-slot entry in transfer_data_ownership; for an object whose
\* material slots have an owner the number of proposals never grows.
C5_ProposeOnlyUnowned ==
    [][\A obj \in MatObjects :
          Cardinality(Proposals(temp_transfer_data', obj))
              > Cardinality(Proposals(temp_transfer_data, obj))
          => /\ obj_type[obj] \in material_objects
             /\ ~HasMaterialOwner(obj)
             /\ temp_transfer_data'[Len(temp_transfer_data')].type = MATERIAL_SLOT_KEY
             /\ temp_transfer_data'[Len(temp_transfer_data')].obj = obj]_vars

\* Witness of C5: an object got a material owner from a proposal, the proposals
\* were cleared and init_materials ran again for objects without owner only.
C5_Witness ==
    \E o1, o2 \in MatObjects :
        /\ o1 # o2
        /\ HasMaterialOwner(o1)
        /\ obj_type[o1] \in material_objects
        /\ Proposals(temp_transfer_data, o1) = {}
        /\ Proposals(temp_transfer_data, o2) # {}
        /\ \E i \in 1..Len(transfer_data_ownership[o2]) :
               transfer_data_ownership[o2][i].type = VERTEX_GROUP_KEY

(***************************************************************************)
(* Claims about asset_builder.py (specification SpecBuilder)               *)
(***************************************************************************)
\* C2: in every publish() call start_publish is invoked at most once and only
\* with the build context pickled to the pickle file and that file closed;
\* a call on a build context without asset publish writes the first version,
\* writes no pickle and starts no second instance.
C2_StartOnlyAfterPickleClosed ==
    /\ this_call.starts <= 1
    /\ Len(started) <= publish_calls
    /\ \A i \in 1..Len(started) :
           /\ started[i].pickle.exists
           /\ ~started[i].pickle.open
           /\ started[i].pickle.content = "build_context"
    /\ this_call.starts = 1 => this_call.kind = "normal" /\ this_call.pickles = 1
    /\ this_call.kind = "first" =>
           /\ this_call.first_writes = 1
           /\ this_call.pickles = 0
           /\ this_call.starts = 0
           /\ publish_pc = "idle"
           /\ PublishVersions[1] \in publish_files

\* Witness of C2: a first-version call was followed by a call that pickled
\* the build context and started the second instance.
C2_Witness ==
    /\ publish_calls >= 2
    /\ this_call.kind = "normal"
    /\ this_call.starts = 1
    /\ Len(started) = 1
    /\ publish_pc = "idle"

(***************************************************************************)
(* Claims about the isolate strip view (specification SpecIsolate)         *)
(***************************************************************************)
\* C6: after rr.sqe_isolate_strip_exit the isolate view is empty and every
\* strip that existed at enter has the mute value it had before isolate view
\* was entered (also when enter ran more than once before the exit); after
\* rr.sqe_isolate_strip_enter exactly the selected strips are unmuted.
C6_EnterExitRestores ==
    /\ isolate_op = "exit" =>
           /\ isolate_view = <<>>
           /\ \A s \in existing : mute[s] = mute_before[s]
    /\ isolate_op = "enter" =>
           \A s \in existing : ~mute[s] <=> s \in selected

(***************************************************************************)
(* Claims about rr.sqe_approve_render (specification SpecApprove)          *)
(***************************************************************************)
Approved == approve_pc = "idle" /\ fs_log # <<>>

\* C7: rr.sqe_approve_render keeps exactly one backup generation: when the
\* shot-frames directory existed, an existing backup is deleted first, then
\* the directory is renamed to the backup path and only then the strip's
\* directory is copied; afterwards the shot-frames directory holds the
\* strip's render only, the backup is the previous shot-frames directory,
\* and metadata.json has source_current = the strip directory and
\* source_backup = the previous source_current (empty on the first approval).
C7_OneBackupGeneration ==
    /\ Approved =>
           /\ fs_log = IF approve_pre[ShotFramesDir] = Missing
                       THEN <<"mkdir", "copytree">>
                       ELSE IF approve_pre[ShotFramesBackupPath] = Missing
                       THEN <<"rename", "copytree">>
                       ELSE <<"rmtree", "rename", "copytree">>
           /\ fs[ShotFramesDir] = Dir({strip_dir})
           /\ fs[ShotFramesBackupPath] = approve_pre[ShotFramesDir]
           /\ fs[MetadataPath] =
                  Json(strip_dir, approve_pre[MetadataPath].source_current)
           /\ fs[ShotFramesBackupPath] =
                  IF fs[MetadataPath].source_backup = "" THEN Missing
                  ELSE Dir({fs[MetadataPath].source_backup})
    /\ approve_pc = "copy" => fs[ShotFramesDir] \in {Missing, Dir({})}

\* Witness of C7: a third approval replaced an existing backup.
C7_Witness ==
    /\ Approved
    /\ fs_log = <<"rmtree", "rename", "copytree">>
    /\ fs[MetadataPath].source_backup # ""
    /\ fs[MetadataPath].source_backup # strip_dir

(***************************************************************************)
(* Claims about rr.sqe_push_to_edit (specification SpecPushToEdit)         *)
(***************************************************************************)
\* The version number in a name that push_to_edit composed.
PushedVersion(name) ==
    str_to_int(SubSeq(name, Len(ShotDotTaskType) + 3, Len(name) - Len(Mp4)))

\* The versioned mp4 files of this shot and task type among entries:
\* <shot>.<task type>.v<digits>.mp4
VersionedMp4s(entries) ==
    {f.name : f \in
        {e \in entries :
            /\ e.is_file
            /\ Len(e.name) > Len(ShotDotTaskType) + 2 + Len(Mp4)
            /\ startswith(e.name, ShotDotTaskType \o <<".", "v">>)
            /\ SubSeq(e.name, Len(e.name) - Len(Mp4) + 1, Len(e.name)) = Mp4
            /\ \A i \in (Len(ShotDotTaskType) + 3)..(Len(e.name) - Len(Mp4)) :
                   IsDigit(e.name[i])}}

\* C8: get_edit_filepath names version v001 when the directory holds no
\* versioned mp4 of this shot and task type and otherwise the latest existing
\* version plus one; so over any sequence of push_to_edit executions the
\* versions of the files copied to are strictly increasing and no existing
\* file is overwritten.
C8_VersionsStrictlyIncrease ==
    /\ ~overwrote
    /\ \A i, j \in 1..Len(pushed) :
           i < j => PushedVersion(pushed[i]) < PushedVersion(pushed[j])
    /\ pushed # <<>> =>
           LET had == {PushedVersion(n) : n \in VersionedMp4s(previews_before)}
               last == pushed[Len(pushed)]
           IN  /\ last \in VersionedMp4s(previews)
               /\ PushedVersion(last) =
                      IF had = {} THEN 1
                      ELSE 1 + CHOOSE v \in had : \A w \in had : w <= v

(***************************************************************************)
(* Claims about the media viewer (specification SpecViewer)                *)
(***************************************************************************)
\* C9: media_viewer.frame_offset wraps around start and end: when the current
\* frame was within [frame_start, frame_end], the new current frame is
\* within it again and equals
\* frame_start + ((frame_current - frame_start + delta) mod (frame_end - frame_start + 1)).
C9_FrameOffsetWraps ==
    (viewer_op = "frame_offset" /\ frame_before \in frame_start..frame_end) =>
        /\ frame_current \in frame_start..frame_end
        /\ frame_current = frame_start
               + ((frame_before - frame_start + delta) % (frame_end - frame_start + 1))

\* C10: each execution of media_viewer.toggle_mute_audio inverts the mute flag
\* of every sound strip, and after it every sound strip's mute flag equals
\* is_muted.
C10_ToggleInvertsEverySoundStrip ==
    viewer_op = "toggle" =>
        \A f \in loaded :
            /\ sound_mute[f] = ~sound_before[f]
            /\ sound_mute[f] = is_muted

(***************************************************************************)
(* Claims about PoseShapeKeyTarget (specification SpecPose)                *)
(***************************************************************************)
\* No update callback is running.
PoseSettled == pose_stack = <<>>

\* The last property set was target.name.
NameWasSet == pose_op \in {"set_name", "create_shape_key_for_pose"}

\* C11: the name of a PoseShapeKeyTarget stays in sync with its shape key
\* name: after name is set through the property, shape_key_name equals name
\* and the shape key that had the old shape_key_name, if any, is renamed to
\* it; after shape_key_name is set, name equals shape_key_name; the two
\* update callbacks, which call each other, terminate (at most three calls
\* for one property set) with block_name_update reset to False.
C11_NameStaysInSync ==
    /\ (PoseSettled /\ NameWasSet) =>
           /\ shape_key_name = target_name
           /\ shape_key_name_before \in key_blocks_before =>
                  /\ target_name \in key_blocks
                  /\ shape_key_name_before = target_name
                         \/ shape_key_name_before \notin key_blocks
    /\ (PoseSettled /\ pose_op = "set_shape_key_name") =>
           target_name = shape_key_name
    /\ update_calls <= 3
    /\ PoseSettled => ~block_name_update

(***************************************************************************)
(* Claims about render_review registration (specification SpecRegister)    *)
(***************************************************************************)
\* C12: render_review.unregister() undoes render_review.register(): called
\* when register() has registered the three modules, it unregisters ui, ops
\* and props, the reverse of the order in which register() registered them,
\* and afterwards none of the three modules is registered.
C12_UnregisterUndoesRegister ==
    (rr_pc = "idle" /\ rr_op = "unregister" /\ rr_registered_before = RRModules) =>
        /\ rr_calls = << <<"ui", "unregister">>, <<"ops", "unregister">>,
                         <<"props", "unregister">> >>
        /\ rr_registered = {}

(***************************************************************************)
(* Claims about TaskLayerAssembly (specification SpecAssembly)             *)
(***************************************************************************)
\* The list holds two task layer classes with the same class name.
HasSameClassName(list) ==
    \E i, j \in 1..Len(list) : i # j /\ list[i].cls_name = list[j].cls_name

\* The config objects that the dictionary holds.
DictConfigs == {task_layer_config_dict[k] : k \in DOMAIN task_layer_config_dict}

\* C13: constructing a TaskLayerAssembly from a list that holds two task
\* layer classes with the same class name raises and leaves the configuration
\* dictionary empty; for any other list the dictionary holds exactly one
\* TaskLayerConfig per task layer, keyed by class name, the same config
\* objects as task_layer_configs, each with use = False after construction,
\* and the assembly is falsy exactly when the list was empty.
C13_DuplicateRaisesElseOneConfigEach ==
    assembly # "none" =>
        IF HasSameClassName(init_task_layers)
        THEN /\ assembly = "raised"
             /\ task_layer_config_dict = EmptyDict
        ELSE /\ assembly = "built"
             /\ DOMAIN task_layer_config_dict =
                    {init_task_layers[i].cls_name : i \in 1..Len(init_task_layers)}
             /\ \A i \in 1..Len(init_task_layers) :
                    config_objects[task_layer_config_dict[init_task_layers[i].cls_name]]
                        .task_layer = init_task_layers[i]
             /\ Cardinality(DictConfigs) = Len(init_task_layers)
             /\ Range(task_layer_configs) = DictConfigs
             /\ Len(task_layer_configs) = Len(init_task_layers)
             /\ assembly_op = "init" =>
                    \A tc \in DictConfigs : config_objects[tc].use = FALSE
             /\ ~assembly_bool <=> init_task_layers = <<>>

\* Two different classes of the same name, the second found after two
\* entries were put into the dictionary.
C13_Witness ==
    /\ assembly = "raised"
    /\ assembly_op = "init"
    /\ Len(init_task_layers) = 3
    /\ init_task_layers[1].cls # init_task_layers[3].cls
    /\ init_task_layers[1].cls_name = init_task_layers[3].cls_name
    /\ init_task_layers[1].cls_name # init_task_layers[2].cls_name
    /\ task_layer_config_dict = EmptyDict

Ascending(orders) ==
    \A i, j \in 1..Len(orders) : i < j => orders[i] <= orders[j]

IsSubsequence(sub, seq) ==
    \E at \in [1..Len(sub) -> 1..Len(seq)] :
        /\ \A i, j \in 1..Len(sub) : i < j => at[i] < at[j]
        /\ \A i \in 1..Len(sub) : sub[i] = seq[at[i]]

\* The config objects of the assembly whose use is True.
UsedConfigs == {tc \in Range(task_layer_configs) : config_objects[tc].use}

\* C14: in every TaskLayerAssembly task_layers and task_layer_configs are
\* sorted by ascending TaskLayer.order and hold the same task layers at the
\* same positions; after any sequence of setting use and calling reset(),
\* get_used_task_layers() returns exactly the task layers whose config has
\* use = True, in ascending order, and get_task_layer_orders(only_used=True)
\* is the list of their orders, a subsequence of get_task_layer_orders().
C14_SortedAndUsedInOrder ==
    assembly = "built" =>
        /\ Ascending([i \in 1..Len(task_layers) |-> task_layers[i].order])
        /\ Len(task_layer_configs) = Len(task_layers)
        /\ \A i \in 1..Len(task_layers) :
               config_objects[task_layer_configs[i]].task_layer = task_layers[i]
        /\ LET used == get_used_task_layers
           IN  /\ Len(used) = Cardinality(UsedConfigs)
               /\ Range(used) = {config_objects[tc].task_layer : tc \in UsedConfigs}
               /\ Ascending([i \in 1..Len(used) |-> used[i].order])
               /\ get_task_layer_orders(TRUE) =
                      [i \in 1..Len(used) |-> used[i].order]
        /\ IsSubsequence(get_task_layer_orders(TRUE), get_task_layer_orders(FALSE))

\* Three task layers passed out of order, one config put in use and another
\* one reset after it was in use.
C14_Witness ==
    /\ assembly = "built"
    /\ assembly_op = "reset"
    /\ Len(task_layers) = 3
    /\ init_task_layers # task_layers
    /\ Cardinality(UsedConfigs) = 1
    /\ Len(get_used_task_layers) = 1

====
